---- MODULE Spec2Model ----
(***************************************************************************)
(* Model of upload_video.py: the batch loop of __main__ that uploads each  *)
(* selected video file through initialize_upload and resumable_upload, the *)
(* retry loop around insert_request.next_chunk().                          *)
(***************************************************************************)
EXTENDS Integers, Sequences, FiniteSets, TLC

VARIABLES
    video_files,         \* the list of files of the batch (fixed after selection)
    i,                   \* position of the file being processed (enumerate from 1)
    successful_uploads,  \* list of <<file name, video id>>
    failed_uploads,      \* list of file names
    pc,                  \* position of the program
    retry,               \* resumable_upload: local retry
    error,               \* resumable_upload: local error
    response,            \* resumable_upload: local response
    max_sleep,           \* resumable_upload: local max_sleep (0: not assigned yet)
    sleep_seconds,       \* resumable_upload: local sleep_seconds, in 1/RandSteps s
    calls,               \* history: next_chunk calls made by the current upload
    sleeps,              \* history: time.sleep calls made by the current upload
    fails,               \* history: retriable failures seen by the current upload
    partials,            \* history: partial-progress responses of the current upload
    streak,              \* history: retriable failures since the last successful chunk
    first,               \* history: outcome of the first next_chunk call of the upload
    last,                \* history: outcome of the latest next_chunk call of the upload
    driver,              \* history: state of the driver of the current file
    ret,                 \* history: value the driver handed to the batch loop
    log                  \* history: how each processed file ended, in order

vars == <<video_files, i, successful_uploads, failed_uploads, pc, retry, error,
          response, max_sleep, sleep_seconds, calls, sleeps, fails, partials, streak, first, last, driver, ret,
          log>>

batch == <<successful_uploads, failed_uploads>>
hist  == <<calls, sleeps, fails, partials, streak, first, last>>
naps  == <<max_sleep, sleep_seconds>>

-----------------------------------------------------------------------------
(* Bounds of the model *)

\* Largest number of files in a batch.
NumFiles == 2

\* Largest number of partial-progress responses the service gives to one upload.
MaxPartial == 2

\* Number of values random.random() takes in [0, 1): k / RandSteps, k < RandSteps.
RandSteps == 2

-----------------------------------------------------------------------------
(* Program constants and values *)

MAX_RETRIES == 10

RETRIABLE_STATUS_CODES == {500, 502, 503, 504}

\* Python's None, and a response object without an 'id' key.
None == "None"
NoId == "<no id>"

\* HTTP error statuses the service may answer with.
StatusCodes == {400, 403, 500, 501, 502, 503, 504}

\* Values the service may put in the 'id' field of a completion response.
Ids == {"abc123", ""}

\* The name of the k-th selected file.
FileName(k) == "video" \o ToString(k) \o ".mp4"

\* Outcomes of one call of insert_request.next_chunk().
Partial      == [kind |-> "partial", id |-> None, status |-> 0]
Complete(x)  == [kind |-> "complete", id |-> x, status |-> 0]
HttpError(s) == [kind |-> "HttpError", id |-> None, status |-> s]
RetriableExc == [kind |-> "RetriableException", id |-> None, status |-> 0]
OtherExc     == [kind |-> "Exception", id |-> None, status |-> 0]
NoOutcome    == [kind |-> "none", id |-> None, status |-> 0]

Outcomes ==
    {Partial, RetriableExc, OtherExc}
        \cup {Complete(x) : x \in Ids \cup {NoId}}
        \cup {HttpError(s) : s \in StatusCodes}

\* Truth value of a returned video id in "if video_id:".
Truthy(v) == v # None /\ v # ""

\* Variant of BatchCatches: only the "except HttpError" handler.
BatchCatches_HttpOnly(kind) == kind = "HttpError"

\* The exception classes the batch loop catches: HttpError, then Exception.
BatchCatches(kind) == kind \in {"HttpError", "RetriableException", "Exception"}

\* Variants of IsRetriableStatus: every 5xx status retried; no status retried.
IsRetriableStatus_5xx(s) == s >= 500
IsRetriableStatus_Never(s) == FALSE

\* Whether an HttpError of this status is kept as a retriable error.
IsRetriableStatus(s) == s \in RETRIABLE_STATUS_CODES

\* Variant of HasId: the presence of the id field is not checked.
HasId_Unchecked(x) == TRUE

\* 'id' in response, for a response object whose id field is x.
HasId(x) == x # NoId

\* Variant of RetryAfterChunk: a successful chunk resets the counter.
RetryAfterChunk_Reset(r) == 0

\* The value of retry after a next_chunk call that returned without raising:
\* the try block assigns nothing to it.
RetryAfterChunk(r) == r

\* Variants of Exhausted: giving up one failure early, one failure late.
Exhausted_Early(r) == r >= MAX_RETRIES
Exhausted_Late(r) == r > MAX_RETRIES + 1

\* Variant of MaxSleep: the backoff is capped at 64 seconds.
MaxSleep_Capped(r) == IF 2 ^ r > 64 THEN 64 ELSE 2 ^ r

\* max_sleep = 2 ** retry
MaxSleep(r) == 2 ^ r

\* Whether the retry budget is used up, after the increment of retry.
Exhausted(r) == r > MAX_RETRIES

-----------------------------------------------------------------------------
(* The batch loop's handling of what initialize_upload hands back *)

\* What the log keeps of the end of a file: the driver's success branch, retry
\* exhaustion, or any other end.
LogEntry(how) == IF how \in {"DONE", "EXHAUSTED"} THEN how ELSE "FAILED"

\* Variant of Return: the failure list is appended to without the "else".
Return_NoElse(v, how) ==
    /\ IF Truthy(v)
         THEN successful_uploads' = Append(successful_uploads, <<video_files[i], v>>)
         ELSE UNCHANGED successful_uploads
    /\ failed_uploads' = Append(failed_uploads, video_files[i])
    /\ pc' = "for"
    /\ driver' = how
    /\ ret' = v
    /\ log' = Append(log, LogEntry(how))

\* resumable_upload returned v: "if video_id:" decides the list.
Return(v, how) ==
    /\ IF Truthy(v)
         THEN /\ successful_uploads' = Append(successful_uploads, <<video_files[i], v>>)
              /\ UNCHANGED failed_uploads
         ELSE /\ failed_uploads' = Append(failed_uploads, video_files[i])
              /\ UNCHANGED successful_uploads
    /\ pc' = "for"
    /\ driver' = how
    /\ ret' = v
    /\ log' = Append(log, LogEntry(how))

\* An exception of class kind left initialize_upload (or the metadata prompt).
Raise(kind, how) ==
    /\ IF BatchCatches(kind)
         THEN /\ failed_uploads' = Append(failed_uploads, video_files[i])
              /\ pc' = "for"
         ELSE /\ UNCHANGED failed_uploads
              /\ pc' = "crashed"
    /\ UNCHANGED successful_uploads
    /\ driver' = how
    /\ ret' = "raised"
    /\ log' = Append(log, LogEntry(how))

-----------------------------------------------------------------------------
Init ==
    /\ \E n \in 1..NumFiles : video_files = [k \in 1..n |-> FileName(k)]
    /\ i = 0
    /\ successful_uploads = <<>>
    /\ failed_uploads = <<>>
    /\ pc = "for"
    /\ retry = 0
    /\ error = None
    /\ response = None
    /\ max_sleep = 0
    /\ sleep_seconds = 0
    /\ calls = 0
    /\ sleeps = 0
    /\ fails = 0
    /\ partials = 0
    /\ streak = 0
    /\ first = NoOutcome
    /\ last = NoOutcome
    /\ driver = "idle"
    /\ ret = None
    /\ log = <<>>

\* for i, video_file in enumerate(video_files, 1): the next file of the batch.
ForNext ==
    /\ pc = "for"
    /\ i < Len(video_files)
    /\ i' = i + 1
    /\ pc' = "metadata"
    /\ calls' = 0 /\ sleeps' = 0 /\ fails' = 0 /\ partials' = 0 /\ streak' = 0
    /\ first' = NoOutcome /\ last' = NoOutcome
    /\ driver' = "idle"
    /\ ret' = None
    /\ UNCHANGED <<video_files, batch, retry, error, response, naps, log>>

\* The metadata of the file: the defaults, or get_video_metadata, whose
\* prompts may raise in the interactive mode.
GetMetadata ==
    /\ pc = "metadata"
    /\ \E promptOk \in BOOLEAN :
         IF promptOk
           THEN /\ pc' = "init"
                /\ UNCHANGED <<batch, driver, ret, log>>
           ELSE Raise("Exception", "NOT_STARTED")
    /\ UNCHANGED <<video_files, i, retry, error, response, naps, hist>>

\* The loop is over: the final summary is printed.
Summary ==
    /\ pc = "for"
    /\ i = Len(video_files)
    /\ pc' = "summary"
    /\ UNCHANGED <<video_files, i, batch, retry, error, response, naps, hist, driver,
                   ret, log>>

\* Variant of InitializeUpload: retry and error are kept from the upload of the
\* earlier file, as module-level state would be.
InitializeUpload_SharedRetry ==
    /\ pc = "init"
    /\ \E fileOpens \in BOOLEAN :
         IF fileOpens
           THEN /\ response' = None
                /\ max_sleep' = 0
                /\ sleep_seconds' = 0
                /\ pc' = "while"
                /\ driver' = "SENDING"
                /\ UNCHANGED <<retry, error, batch, ret, log>>
           ELSE /\ Raise("RetriableException", "INIT_FAILED")
                /\ UNCHANGED <<retry, error, response, naps>>
    /\ UNCHANGED <<video_files, i, hist>>

\* initialize_upload: MediaFileUpload opens the file (and may raise), the
\* insert request is built, and resumable_upload starts with fresh locals.
InitializeUpload ==
    /\ pc = "init"
    /\ \E fileOpens \in BOOLEAN :
         IF fileOpens
           THEN /\ response' = None
                /\ error' = None
                /\ retry' = 0
                /\ max_sleep' = 0
                /\ sleep_seconds' = 0
                /\ pc' = "while"
                /\ driver' = "SENDING"
                /\ UNCHANGED <<batch, ret, log>>
           ELSE /\ Raise("RetriableException", "INIT_FAILED")
                /\ UNCHANGED <<retry, error, response, naps>>
    /\ UNCHANGED <<video_files, i, hist>>

\* One turn of the try block of resumable_upload: next_chunk and the handlers.
NextChunk ==
    /\ pc = "while"
    /\ response = None
    /\ \E o \in Outcomes :
         /\ o.kind = "partial" => partials < MaxPartial
         /\ calls' = calls + 1
         /\ last' = o
         /\ first' = IF calls = 0 THEN o ELSE first
         /\ partials' = IF o.kind = "partial" THEN partials + 1 ELSE partials
         /\ CASE o.kind = "partial" ->
                   /\ response' = None
                   /\ retry' = RetryAfterChunk(retry)
                   /\ streak' = 0
                   /\ pc' = "if_error"
                   /\ UNCHANGED <<error, fails, batch, driver, ret, log>>
              [] o.kind = "complete" ->
                   /\ response' = o.id
                   /\ retry' = RetryAfterChunk(retry)
                   /\ streak' = 0
                   /\ IF HasId(o.id)
                        THEN Return(o.id, "DONE")
                        ELSE Return(None, "UNEXPECTED")
                   /\ UNCHANGED <<error, fails>>
              [] o.kind = "HttpError" ->
                   /\ IF IsRetriableStatus(o.status)
                        THEN /\ error' = "A retriable HTTP error"
                             /\ fails' = fails + 1
                             /\ streak' = streak + 1
                             /\ pc' = "if_error"
                             /\ UNCHANGED <<batch, driver, ret, log>>
                        ELSE /\ Raise("HttpError", "FATAL")
                             /\ UNCHANGED <<error, fails, streak>>
                   /\ UNCHANGED <<response, retry>>
              [] o.kind = "RetriableException" ->
                   /\ error' = "A retriable error"
                   /\ fails' = fails + 1
                   /\ streak' = streak + 1
                   /\ pc' = "if_error"
                   /\ UNCHANGED <<response, retry, batch, driver, ret, log>>
              [] o.kind = "Exception" ->
                   /\ Raise("Exception", "RAISED")
                   /\ UNCHANGED <<response, retry, error, fails, streak>>
    /\ UNCHANGED <<video_files, i, sleeps, naps>>

\* Variant of IfError: "No longer attempting to retry" is printed but the
\* return is missing, so the driver sleeps and transmits again.
IfError_NoReturn ==
    /\ pc = "if_error"
    /\ IF error # None
         THEN /\ retry' = retry + 1
              /\ pc' = "sleep"
              /\ driver' = IF Exhausted(retry') THEN "EXHAUSTED" ELSE driver
              /\ UNCHANGED <<batch, ret, log>>
         ELSE /\ pc' = "while"
              /\ UNCHANGED <<retry, batch, driver, ret, log>>
    /\ UNCHANGED <<video_files, i, error, response, naps, hist>>

\* Variant of IfError: the backoff sleep is skipped.
IfError_NoSleep ==
    /\ pc = "if_error"
    /\ IF error # None
         THEN /\ retry' = retry + 1
              /\ IF Exhausted(retry')
                   THEN Return(None, "EXHAUSTED")
                   ELSE /\ pc' = "while"
                        /\ UNCHANGED <<batch, driver, ret, log>>
         ELSE /\ pc' = "while"
              /\ UNCHANGED <<retry, batch, driver, ret, log>>
    /\ UNCHANGED <<video_files, i, error, response, naps, hist>>

\* "if error is not None:": count the failure, give up past MAX_RETRIES.
IfError ==
    /\ pc = "if_error"
    /\ IF error # None
         THEN /\ retry' = retry + 1
              /\ IF Exhausted(retry')
                   THEN Return(None, "EXHAUSTED")
                   ELSE /\ pc' = "sleep"
                        /\ UNCHANGED <<batch, driver, ret, log>>
         ELSE /\ pc' = "while"
              /\ UNCHANGED <<retry, batch, driver, ret, log>>
    /\ UNCHANGED <<video_files, i, error, response, naps, hist>>

\* Variant of Sleep: time.sleep never returns.
Sleep_NeverReturns ==
    /\ pc = "sleep"
    /\ UNCHANGED vars

\* Variant of Sleep: the recorded error is not cleared after the sleep.
Sleep_KeepsError ==
    /\ pc = "sleep"
    /\ max_sleep' = MaxSleep(retry)
    /\ \E k \in 0..(RandSteps - 1) : sleep_seconds' = k * max_sleep'
    /\ sleeps' = sleeps + 1
    /\ pc' = "while"
    /\ UNCHANGED <<video_files, i, batch, retry, error, response, calls, fails,
                   partials, streak, first, last, driver, ret, log>>

\* The backoff: time.sleep(random.random() * 2 ** retry), then error = None.
\* random.random() is k / RandSteps; sleep_seconds holds k * max_sleep, the
\* duration in units of 1 / RandSteps seconds.
Sleep ==
    /\ pc = "sleep"
    /\ max_sleep' = MaxSleep(retry)
    /\ \E k \in 0..(RandSteps - 1) : sleep_seconds' = k * max_sleep'
    /\ sleeps' = sleeps + 1
    /\ error' = None
    /\ pc' = "while"
    /\ UNCHANGED <<video_files, i, batch, retry, response, calls, fails, partials,
                   streak, first, last, driver, ret, log>>

Next == ForNext \/ GetMetadata \/ Summary \/ InitializeUpload \/ NextChunk \/ IfError \/ Sleep

Spec == Init /\ [][Next]_vars

\* A batch of one file: one run of initialize_upload and resumable_upload.
OneFile == Init /\ Len(video_files) = 1

\* The driver is sequential code: a call of next_chunk returns or raises, the
\* check of error is made, and a backoff sleep returns.
FairSpec ==
    /\ OneFile
    /\ [][Next]_vars
    /\ WF_vars(NextChunk) /\ WF_vars(IfError) /\ WF_vars(Sleep)

-----------------------------------------------------------------------------
TypeOK ==
    /\ i \in 0..Len(video_files)
    /\ pc \in {"for", "metadata", "init", "while", "if_error", "sleep", "summary", "crashed"}
    /\ retry \in 0..(MAX_RETRIES + 1)
    /\ error \in {None, "A retriable HTTP error", "A retriable error"}

-----------------------------------------------------------------------------
(* Vocabulary of the properties *)

\* The driver of the current file is inside its while loop.
InLoop == pc \in {"while", "if_error", "sleep"}

\* The current file has been recorded as failed, and control is back in the loop
\* of the batch (or past it).
RecordedFailed ==
    /\ pc \in {"for", "summary"}
    /\ Len(log) = i
    /\ failed_uploads # <<>>
    /\ failed_uploads[Len(failed_uploads)] = video_files[i]

\* The current file has been recorded as a successful upload with id x.
RecordedSuccess(x) ==
    /\ pc \in {"for", "summary"}
    /\ Len(log) = i
    /\ successful_uploads # <<>>
    /\ successful_uploads[Len(successful_uploads)] = <<video_files[i], x>>

\* The latest next_chunk call raised an HttpError.
LastIsHttpError == last.kind = "HttpError"

\* The latest next_chunk call returned without raising.
LastSucceeded == last.kind \in {"partial", "complete"}

-----------------------------------------------------------------------------
(* C1 *)

\* C1: an HttpError raised by next_chunk is taken into the retry branch (kept as
\* the error, counted by retry, followed by a backoff sleep unless the count
\* passes the limit) exactly when its status is 500, 502, 503 or 504; with any
\* other status the upload ends at once: the error reaches the batch loop, which
\* records the file as failed, retry is not incremented, no sleep and no further
\* next_chunk call follow.
C1_FatalStatusNeverRetried ==
    LastIsHttpError =>
        IF last.status \in {500, 502, 503, 504}
          THEN \/ pc = "if_error" /\ error = "A retriable HTTP error"
                                   /\ retry = fails - 1 /\ sleeps = fails - 1
               \/ pc = "sleep" /\ retry = fails /\ sleeps = fails - 1
               \/ pc = "while" /\ retry = fails /\ sleeps = fails
               \/ driver = "EXHAUSTED" /\ retry = fails /\ sleeps = fails - 1
          ELSE /\ driver = "FATAL"
               /\ ret = "raised"
               /\ ~InLoop
               /\ RecordedFailed
               /\ retry = fails
               /\ sleeps = fails

\* A 403 arrives after two retried failures and ends the upload.
C1_Witness ==
    /\ LastIsHttpError /\ last.status = 403
    /\ driver = "FATAL" /\ fails = 2 /\ sleeps = 2 /\ calls = 3

-----------------------------------------------------------------------------
(* C2 *)

\* C2 as stated: after any successful chunk transmission the retry counter is 0.
C2_Original_RetryResetOnSuccess ==
    LastSucceeded => retry = 0

\* C2, amended: the retry counter is never reset within an upload. After any
\* successful chunk transmission it still equals the number of retriable failures
\* the upload has seen so far, and a retriable failure followed by a successful
\* final chunk ends with the retry counter equal to 1.
C2_RetryNeverReset ==
    /\ LastSucceeded => retry = fails
    /\ (driver = "DONE" /\ calls = 2 /\ first.kind \in {"HttpError", "RetriableException"})
          => retry = 1

\* A 503, then the final chunk: the upload is done and retry is 1.
C2_Witness ==
    /\ driver = "DONE" /\ calls = 2
    /\ first = HttpError(503)
    /\ last = Complete("abc123")
    /\ retry = 1

-----------------------------------------------------------------------------
(* C3 *)

\* C3 as stated: at retry exhaustion, more than 10 retriable failures have
\* occurred in a row, with no successful chunk between any two of them.
C3_Original_ExhaustionConsecutive ==
    driver = "EXHAUSTED" => streak > 10

\* C3, amended: at retry exhaustion the upload has seen exactly 11 retriable
\* failures in total, the retry counter is 11, and the latest call failed; the
\* failures need not be consecutive, partial-progress responses between them do
\* not give any retry back.
C3_ExhaustionCountsAllFailures ==
    driver = "EXHAUSTED" =>
        /\ fails = 11
        /\ retry = 11
        /\ streak \in 1..11
        /\ last.kind \in {"HttpError", "RetriableException"}
        /\ calls = 11 + partials

\* Exhaustion with partial progress between the failures.
C3_Witness ==
    /\ driver = "EXHAUSTED"
    /\ partials = 2
    /\ streak < 10

-----------------------------------------------------------------------------
(* C4 *)

\* C4: while every transmission of an upload has failed with a retriable error,
\* at most 11 transmissions have been made; the 11th failure ends the upload,
\* which returns None (the file is recorded as failed), so such an upload ends
\* after exactly 11 transmissions and a 12th next_chunk call is never made.
C4_ElevenTransmissionsThenNone ==
    (calls > 0 /\ fails = calls) =>
        /\ calls <= 11
        /\ calls = 11 => pc \notin {"sleep", "while"}
        /\ ~InLoop => /\ calls = 11
                      /\ driver = "EXHAUSTED"
                      /\ ret = None
                      /\ sleeps = 10
                      /\ RecordedFailed

\* Eleven failures in eleven calls, all HTTP 500.
C4_Witness ==
    /\ driver = "EXHAUSTED"
    /\ calls = 11 /\ fails = 11 /\ partials = 0
    /\ first = HttpError(500) /\ last = HttpError(500)

-----------------------------------------------------------------------------
(* C5 *)

\* C5 as stated: an upload that saw retriable failures and whose latest
\* transmission is a completion response with id X has returned X, and the file
\* is recorded as a successful upload with id X.
C5_Original_RetriesAbsorbed ==
    (fails >= 1 /\ last.kind = "complete" /\ HasId(last.id)) =>
        /\ ret = last.id
        /\ RecordedSuccess(last.id)

-----------------------------------------------------------------------------
(* C6 *)

\* C6: a completion response without an id field ends the upload at once with
\* the result None: the file is recorded as failed, the response is not counted
\* by retry, no sleep follows it and no further next_chunk call is made, however
\* many retries remain.
C6_MissingIdNeverRetried ==
    (last.kind = "complete" /\ last.id = NoId) =>
        /\ driver = "UNEXPECTED"
        /\ ret = None
        /\ ~InLoop
        /\ RecordedFailed
        /\ retry = fails
        /\ sleeps = fails
        /\ calls = fails + partials + 1

\* A response without id after one retried failure: nine retries remain.
C6_Witness ==
    /\ last = Complete(NoId)
    /\ driver = "UNEXPECTED"
    /\ retry = 1 /\ sleeps = 1 /\ calls = 2

-----------------------------------------------------------------------------
(* C7 *)

\* C7 as stated: when the driver ends in its success branch, the value it hands
\* to the batch loop is a non-empty id and the batch loop records the file as a
\* successful upload with that id.
C7_Original_DoneHasNonEmptyId ==
    driver = "DONE" =>
        /\ Truthy(ret)
        /\ RecordedSuccess(ret)

-----------------------------------------------------------------------------
(* C8 *)

\* C8: no outcome of a file's upload (success, retry exhaustion, response
\* without id, fatal HTTP error, any other exception) ends the batch: the loop
\* is never left by an exception, every file before the current one has its
\* outcome logged, and the summary is reached only after every file of the list
\* has been processed.
C8_BatchNeverAborted ==
    /\ pc # "crashed"
    /\ Len(log) = IF pc \in {"for", "summary"} THEN i ELSE i - 1
    /\ pc = "summary" => Len(log) = Len(video_files)

\* The first file ends with retry exhaustion, the second one is still uploaded,
\* and the summary is reached.
C8_Witness ==
    /\ pc = "summary"
    /\ log = <<"EXHAUSTED", "DONE">>
    /\ Len(successful_uploads) = 1

-----------------------------------------------------------------------------
(* C9 *)

\* C9: every processed file has added exactly one entry to exactly one of
\* successful_uploads and failed_uploads, so the two lengths add up to the
\* number of processed files, and at the summary to the number of files of the
\* batch; a step adds at most one entry, and never changes or removes one.
C9_OneResultPerFile ==
    /\ [](/\ Len(successful_uploads) + Len(failed_uploads) = Len(log)
          /\ pc = "summary" =>
                Len(successful_uploads) + Len(failed_uploads) = Len(video_files))
    /\ [][/\ Len(successful_uploads') >= Len(successful_uploads)
          /\ Len(failed_uploads') >= Len(failed_uploads)
          /\ SubSeq(successful_uploads', 1, Len(successful_uploads)) = successful_uploads
          /\ SubSeq(failed_uploads', 1, Len(failed_uploads)) = failed_uploads
          /\ Len(successful_uploads') + Len(failed_uploads')
                <= Len(successful_uploads) + Len(failed_uploads) + 1]_vars

\* A batch of two files at the summary, one in each list.
C9_Witness ==
    /\ pc = "summary"
    /\ Len(video_files) = 2
    /\ Len(successful_uploads) = 1
    /\ Len(failed_uploads) = 1

-----------------------------------------------------------------------------
(* C10 *)

\* C10 as stated: when the first request of an upload is rejected with an HTTP
\* error, of whatever status, no backoff sleep and no second request follow.
C10_Original_FirstRejectionNeverRetried ==
    first.kind = "HttpError" => (sleeps = 0 /\ calls = 1)

\* C10, amended: the first request of an upload is sent by the first
\* next_chunk call, inside the retry loop, so its rejection is handled like any
\* other chunk failure: with status 500, 502, 503 or 504 it is counted and
\* retried after a backoff sleep, with any other status it is surfaced at once,
\* with no sleep and no second request. A file that cannot be opened fails the
\* upload before any transmission, and without retry.
C10_FirstRejectionRetriedIfRetriable ==
    /\ (first.kind = "HttpError" /\ first.status \in {500, 502, 503, 504}) =>
          \/ calls = 1 /\ pc = "if_error" /\ error # None /\ sleeps = 0
          \/ calls = 1 /\ pc = "sleep" /\ retry = 1 /\ sleeps = 0
          \/ calls >= 1 /\ sleeps >= 1 /\ retry >= 1
    /\ (first.kind = "HttpError" /\ first.status \notin {500, 502, 503, 504}) =>
          /\ calls = 1 /\ sleeps = 0 /\ fails = 0
          /\ driver = "FATAL"
          /\ RecordedFailed
    /\ driver = "INIT_FAILED" =>
          /\ calls = 0 /\ sleeps = 0
          /\ ret = "raised"
          /\ RecordedFailed

\* The first request is rejected with a 503, a sleep follows, and a second
\* request completes the upload.
C10_Witness ==
    /\ first = HttpError(503)
    /\ sleeps = 1 /\ calls = 2
    /\ driver = "DONE"

-----------------------------------------------------------------------------
(* C11 *)

\* The driver has just slept after a retriable failure and is about to call
\* next_chunk again.
JustSlept == pc = "while" /\ last.kind \in {"HttpError", "RetriableException"}

\* C11: the backoff slept after the n-th counted failure (n = retry after its
\* increment, 1 <= n <= 10) has the upper bound max_sleep = 2^n exactly, and its
\* duration lies in [0, 2^n) seconds; the bound is never capped and never
\* exceeds 2^10 = 1024.
C11_BackoffBelowTwoPowerRetry ==
    JustSlept =>
        /\ retry \in 1..10
        /\ sleeps = retry
        /\ max_sleep = 2 ^ retry
        /\ max_sleep <= 1024
        /\ sleep_seconds >= 0
        /\ sleep_seconds < RandSteps * (2 ^ retry)

\* The tenth backoff, with the largest value of random.random(): the bound is
\* 1024 seconds and the sleep is at least 512 seconds long.
C11_Witness ==
    /\ JustSlept
    /\ retry = 10
    /\ max_sleep = 1024
    /\ sleep_seconds = (RandSteps - 1) * 1024

-----------------------------------------------------------------------------
(* C13 *)

\* C13: every run of resumable_upload starts with retry = 0 and no recorded
\* error, whatever the uploads of the earlier files did, and inside the loop
\* retry counts failures of the current upload only.
C13_RetryStateNotShared ==
    /\ (pc = "while" /\ calls = 0) =>
          (retry = 0 /\ error = None /\ response = None)
    /\ InLoop => retry \in {fails, fails - 1}

\* The second upload starts with retry = 0 after the first one has used up all
\* of its retries.
C13_Witness ==
    /\ i = 2
    /\ log = <<"EXHAUSTED">>
    /\ pc = "while" /\ calls = 0
    /\ retry = 0 /\ error = None

-----------------------------------------------------------------------------
(* C14 *)

\* The driver of the current file has reached a terminal outcome.
Terminal == driver \in {"DONE", "UNEXPECTED", "EXHAUSTED", "FATAL", "RAISED"}

\* C14: once resumable_upload has reached a terminal outcome, the driver is out
\* of its loop, the latest next_chunk call of the upload is the one that
\* produced the outcome, and every backoff sleep of the upload precedes that
\* call: no transmission and no sleep follow the outcome.
C14_NothingAfterTerminalOutcome ==
    Terminal =>
        /\ ~InLoop
        /\ calls = fails + partials + (IF driver = "EXHAUSTED" THEN 0 ELSE 1)
        /\ sleeps = IF driver = "EXHAUSTED" THEN fails - 1 ELSE fails
        /\ driver = "DONE" => (last.kind = "complete" /\ last.id # NoId /\ ret = last.id)
        /\ driver = "UNEXPECTED" => (last = Complete(NoId) /\ ret = None)
        /\ driver = "EXHAUSTED" =>
              (last.kind \in {"HttpError", "RetriableException"} /\ ret = None)
        /\ driver = "FATAL" => (last.kind = "HttpError" /\ ret = "raised")
        /\ driver = "RAISED" => (last = OtherExc /\ ret = "raised")

\* The batch is at its summary; the upload of the last file ended with retry
\* exhaustion after 11 calls and 10 sleeps, and nothing was added since.
C14_Witness ==
    /\ pc = "summary"
    /\ driver = "EXHAUSTED"
    /\ calls = 11 /\ sleeps = 10

-----------------------------------------------------------------------------
(* C15 *)

\* C15: sleeps and transmissions alternate around failures. Whenever the driver
\* is about to call next_chunk, every retriable failure of the upload has been
\* followed by exactly one backoff sleep; a failure that is not yet slept on is
\* the latest call; and the failure that exhausts the retries is followed by
\* no sleep.
C15_OneSleepPerRetriedFailure ==
    /\ pc = "while" => sleeps = fails
    /\ pc = "if_error" => sleeps = IF error # None THEN fails - 1 ELSE fails
    /\ pc = "sleep" =>
          (sleeps = fails - 1 /\ last.kind \in {"HttpError", "RetriableException"})
    /\ driver = "EXHAUSTED" => (sleeps = 10 /\ fails = 11 /\ ~InLoop)

\* Three failures, each followed by one sleep, and a partial-progress response
\* among them; the driver is about to transmit again.
C15_Witness ==
    /\ JustSlept
    /\ fails = 3 /\ sleeps = 3 /\ partials = 1 /\ calls = 4

-----------------------------------------------------------------------------
(* C16 *)

\* C16: in one upload, whatever the interleaving of partial-progress responses
\* and retriable failures, at most 10 backoff sleeps are taken and at most 11
\* retriable failures are seen.
C16_AtMostTenSleeps ==
    /\ sleeps <= 10
    /\ fails <= 11
    /\ fails = 11 => (pc = "if_error" \/ driver = "EXHAUSTED")

\* Ten sleeps and eleven failures, with partial progress after the first
\* failure and none after it.
C16_Witness ==
    /\ sleeps = 10 /\ fails = 11
    /\ partials >= 1
    /\ streak = 10
    /\ driver = "EXHAUSTED"

-----------------------------------------------------------------------------
(* C17 *)

\* C17: the recorded error is None at the start of every iteration of the loop,
\* and after a next_chunk call that returned partial progress retry and the
\* number of sleeps are still those of the failures really seen: the response
\* is followed by no increment of retry and by no sleep.
C17_PartialProgressNotCounted ==
    /\ pc = "while" => error = None
    /\ (InLoop /\ last.kind = "partial") =>
          /\ pc # "sleep"
          /\ error = None
          /\ retry = fails
          /\ sleeps = fails

\* A failure, its sleep, then a partial-progress response: the driver is back
\* at the top of the loop with retry = 1 and one sleep taken.
C17_Witness ==
    /\ pc = "while"
    /\ last.kind = "partial"
    /\ calls = 2 /\ fails = 1
    /\ retry = 1 /\ sleeps = 1

-----------------------------------------------------------------------------
(* C18 *)

\* C18: when every sleep returns and the service answers with partial progress
\* at most MaxPartial times, every run of resumable_upload that has entered its
\* loop reaches a terminal outcome. That bound is needed: a partial-progress
\* response takes the driver through one turn of the loop and back to
\* next_chunk with retry, error and response unchanged, so nothing in the code
\* limits the number of such turns.
C18_UploadTerminates ==
    /\ (driver = "SENDING") ~> Terminal
    /\ [][(calls' = calls + 1 /\ last'.kind = "partial") =>
            (pc' = "if_error" /\ UNCHANGED <<retry, error, response>>)]_vars
    /\ [][(pc = "if_error" /\ last.kind = "partial") =>
            (pc' = "while" /\ UNCHANGED <<retry, error, response>>)]_vars

\* The longest run that ends in success: ten retried failures and every
\* partial-progress response the service may give.
C18_Witness ==
    /\ driver = "DONE"
    /\ fails = 10 /\ sleeps = 10
    /\ partials = MaxPartial

====
